---- MODULE Spec2Model ----
(***************************************************************************)
(* Model of the CPT load pipeline: etl/main.py drives, for every manifest  *)
(* entry, utils.parse_conetec and then the ordered remote writes of        *)
(* src/utils.py and src/openground.py against the OpenGround project.      *)
(* The remote project is the three tables LocationDetails,                 *)
(* StaticConePenetrationGeneral and StaticConePenetrationData.             *)
(***************************************************************************)
EXTENDS Integers, Sequences, FiniteSets, TLC

\* ------------------------------------------------------------------ bounds
\* Number of times the driver is started on the same manifest and project.
MaxRuns == 2

\* ------------------------------------------------------- program constants
\* openground.py:230, the limit insert_in_bulk chunks by.
MAX_ALLOWED_BULK == 1000
\* openground.py:174, the limit insert_in_bulk's docstring documents.
DOC_MAX_ALLOWED_BULK == 500

\* ------------------------------------------------------------------ inputs
\* Ids of the manifest entries, in manifest order (cpt["id"], main.py:36).
TestNames == <<"A", "B">>
\* A location of the project that no manifest entry names.
OtherName == "O"
AllNames == {TestNames[i] : i \in 1..Len(TestNames)} \cup {OtherName}

\* Lengths of the parsed series (len(cpt_data.data)) the files come in.
SeriesLens ==
  {0, 1, DOC_MAX_ALLOWED_BULK + 1, MAX_ALLOWED_BULK, MAX_ALLOWED_BULK + 1}

\* The two revisions of the record model: "cpt_id" is src/src/models.py,
\* "name" is the one utils.py, main.py and tests/test_cpt.py are written
\* against (cpt.name, CPTGeneral(name=...), CPTData(cpt_name=...)).
RecordRevisions == {"cpt_id", "name"}

\* Keyword parameters of CPTGeneral.__init__ in src/src/models.py.
ModelsPyParams ==
  {"source_file", "cpt_id", "timestamp", "area_ratio", "cone_id", "depth_gwt",
   "pen_rate", "remarks", "subcontractor", "test_id", "cone_type",
   "pre_drill_depth"}

\* Keyword parameters of the record model the callers and tests expect.
CallerParams == (ModelsPyParams \ {"cpt_id"}) \cup {"name"}

ConstructorParams(rev) ==
  IF rev = "cpt_id" THEN ModelsPyParams ELSE CallerParams

\* Keywords parse_conetec passes to CPTGeneral (utils.py:128-141).
ParseKwargs ==
  {"source_file", "name", "timestamp", "area_ratio", "cone_id", "cone_type",
   "subcontractor", "test_id", "depth_gwt", "pen_rate", "remarks"}

\* The allow-list of metadata field names (utils.py:53-89).
Expected ==
  {"Interpretation Format:", "Run ID:", "Job No:", "Client:", "Project:",
   "Facility:", "Sounding ID:", "Cone ID:", "Operator:", "CPT Date:",
   "CPT Time:", "CPT File:", "Tip Units:", "Sleeve Units:", "PP Units:",
   "Tip Conversion to bar:", "Sleeve Conversion to bar:",
   "PP Conversion to meters:", "Easting / Long:", "Northing / Lat:",
   "Elevation:", "Tip Net Area Ratio:", "Averaging Interval:",
   "Col  5 (Extra Module) Parameter", "Col  5 (Extra Module) Units",
   "Coord Source:", "Coord Type:", "UTM Zone:",
   "Norm. SBT Charts extended for Low Fr:", "Extended Y Axis on SBT Charts:"}

\* The metadata fields parse_conetec reads by name (utils.py:124-136).
Required ==
  {"CPT Date:", "CPT Time:", "Tip Net Area Ratio:", "Cone ID:", "Run ID:"}

\* A field name no vendor export is known to carry.
UnknownField == "Pre-Drill Depth:"

\* A metadata row: its field name and whether its value cell is filled.
Row(field, valued) == [field |-> field, valued |-> valued]

\* A source file, by what parse_conetec reads of it:
\*   sep     the last entirely blank row exists and is not row 0
\*   sig     the first metadata cell carries a vendor name
\*   meta    the metadata rows below the first
\*   cols    the column header row is the expected one
\*   units   the units row is the expected one
\*   n       rows of the series after missing-row removal
\*   dup     the series holds the same depth twice
Conforming(n) ==
  [sep |-> TRUE, sig |-> TRUE, meta |-> {Row(x, TRUE) : x \in Required},
   cols |-> TRUE, units |-> TRUE, n |-> n, dup |-> FALSE]

WithRow(f, field, valued) ==
  [f EXCEPT !.meta = @ \cup {Row(field, valued)}]

Files ==
  {Conforming(n) : n \in SeriesLens}
  \cup {[Conforming(DOC_MAX_ALLOWED_BULK + 1) EXCEPT !.dup = TRUE]}
  \cup {[Conforming(1) EXCEPT !.sep = FALSE],
        [Conforming(1) EXCEPT !.sig = FALSE],
        WithRow(Conforming(1), UnknownField, TRUE),
        WithRow(Conforming(1), UnknownField, FALSE),
        [Conforming(1) EXCEPT !.cols = FALSE],
        [Conforming(1) EXCEPT !.units = FALSE],
        [WithRow(Conforming(1), UnknownField, TRUE) EXCEPT !.units = FALSE]}

\* Every field name of the metadata block, filled or not.
FieldNames(f) == {r.field : r \in f.meta}

\* set(df_meta.index) after set_index("Field") and dropna(axis=0, how="all")
\* (utils.py:47-48): the rows whose value cell is blank are gone.
MetaIndex(f) == {r.field : r \in {x \in f.meta : x.valued}}

\* parse_conetec with the allow-list assert (utils.py:90) left out.
parse_conetec_NoAllowList(f, rev) ==
  IF ~f.sep THEN "IOError_separator"
  ELSE IF ~f.sig THEN "ValueError_signature"
  ELSE IF ~f.cols THEN "IOError_columns"
  ELSE IF ~f.units THEN "IOError_units"
  ELSE IF ~(Required \subseteq MetaIndex(f)) THEN "KeyError_field"
  ELSE IF ~(ParseKwargs \subseteq ConstructorParams(rev)) THEN "TypeError_keyword"
  ELSE "ok"

\* utils.parse_conetec: the checks in the order the code makes them; the
\* result is "ok" or the exception raised.
parse_conetec(f, rev) ==
  IF ~f.sep THEN "IOError_separator"
  ELSE IF ~f.sig THEN "ValueError_signature"
  ELSE IF MetaIndex(f) \ Expected # {} THEN "AssertionError_fields"
  ELSE IF ~f.cols THEN "IOError_columns"
  ELSE IF ~f.units THEN "IOError_units"
  ELSE IF ~(Required \subseteq MetaIndex(f)) THEN "KeyError_field"
  ELSE IF ~(ParseKwargs \subseteq ConstructorParams(rev)) THEN "TypeError_keyword"
  ELSE "ok"

\* ------------------------------------------------------- the spreadsheet
\* A cell is a string; NaN is the empty cell pd.read_excel gives.
NaN == "NaN"

\* A reading at or below -9000, masked to NaN by utils.py:116.
Sentinel == "-9999"

\* utils.py:94 and 98, the header rows parse_conetec expects.
ExpectedCols == <<"Depth", "Depth", "qc", "qt", "fs", "u", "Rf">>
ExpectedUnits == <<"m", "ft", "tsf", "tsf", "tsf", "ft", "%">>

\* utils.py:40-45, the vendor names looked for in the first metadata cell.
VendorNames == {"ConeTec", "CPT Inc."}

\* df.iloc[:, 1:] (utils.py:26): every row without its first cell.
DropFirstColumn(raw) == [i \in 1..Len(raw) |-> Tail(raw[i])]

\* df.isnull().sum(axis=1) == len(df.columns) (utils.py:29) for one row.
IsBlankRow(r) == \A j \in 1..Len(r) : r[j] = NaN

\* Pandas row labels of the entirely blank rows (labels start at 0).
BlankLabels(df) == {i - 1 : i \in {k \in 1..Len(df) : IsBlankRow(df[k])}}

Max(S) == CHOOSE x \in S : \A y \in S : y <= x

\* end_of_metadata with the first blank row taken for the last.
EndOfMetadata_First(df) ==
  IF BlankLabels(df) = {} THEN -1
  ELSE CHOOSE x \in BlankLabels(df) : \A y \in BlankLabels(df) : x <= y

\* df[filt].index.max() (utils.py:30); -1 stands for the nan an empty index
\* gives, for which "end_of_metadata > 0" is false as well.
EndOfMetadata(df) ==
  IF BlankLabels(df) = {} THEN -1 ELSE Max(BlankLabels(df))

\* utils.py:31, the separator check.
SeparatorFound(end) == end > 0

\* df[:end_of_metadata] (utils.py:35).
MetaBlock(df, end) == SubSeq(df, 1, end)

\* Columns left by dropna(axis=1, how="all") (utils.py:36), in order.
KeptColumns(block) ==
  LET w == IF Len(block) = 0 THEN 0 ELSE Len(block[1])
      keep == {j \in 1..w : \E i \in 1..Len(block) : block[i][j] # NaN}
      F[k \in 0..w] ==
        IF k = 0 THEN <<>>
        ELSE IF k \in keep THEN Append(F[k - 1], k) ELSE F[k - 1]
  IN F[w]

\* df.loc[label] (utils.py:93 and 97): the row, or no row under that label.
RowAt(df, label) ==
  IF label + 1 \in 1..Len(df) THEN df[label + 1] ELSE <<>>

HasRow(df, label) == label + 1 \in 1..Len(df)

\* The column-name check on the first three names only.
ColumnsMatch_Prefix(cols) ==
  Len(cols) >= 3 /\ SubSeq(cols, 1, 3) = SubSeq(ExpectedCols, 1, 3)

\* utils.py:94, the column-name check.
ColumnsMatch(cols) == cols = ExpectedCols

\* utils.py:98, the units check.
UnitsMatch(units) == units = ExpectedUnits

\* A cell that reaches CPTData as nan: empty, or masked by utils.py:116.
IsMissing(c) == c \in {NaN, Sentinel}

\* models.py:158-163: the resistance column the missing-row rule looks at,
\* by which of qc and qt the series was given.
DropSubset(qc_given, qt_given) ==
  IF qc_given THEN "qc" ELSE IF qt_given THEN "qt" ELSE "none"

\* The missing-row rule looking at the depth only.
KeepRow_DepthOnly(r, subset) == r.depth

\* df.dropna(axis=0, how="all", subset=cols) (models.py:165) for one row,
\* given by which of its cells hold a value.
KeepRow(r, subset) == r.depth \/ r[subset]

\* CPTData._attrs_to_dataframe (models.py:131-166) on a series given by its
\* rows: the ValueError of models.py:163, or the rows left, in order.
attrs_to_dataframe(s) ==
  LET subset == DropSubset(s.qc_given, s.qt_given)
      keep(r) == KeepRow(r, subset)
  IN IF subset = "none" THEN [status |-> "ValueError", data |-> <<>>]
     ELSE [status |-> "ok", data |-> SelectSeq(s.rows, keep)]

\* Rows of the data block that models._attrs_to_dataframe keeps on what
\* parse_conetec hands over, qc and qt both given: depth [ft] is the block's
\* second column, qc its third, qt its fourth (utils.py:103-114, 143-150).
KeptDataRows(df, end) ==
  {i \in (end + 4)..Len(df) :
     Len(df[i]) >= 4 /\
     KeepRow([depth |-> ~IsMissing(df[i][2]), qc |-> ~IsMissing(df[i][3]),
              qt |-> ~IsMissing(df[i][4])], DropSubset(TRUE, TRUE))}

\* What parse_conetec reads of a grid (the first column already dropped),
\* as the file record above.
Describe(df) ==
  LET end == EndOfMetadata(df)
      block == MetaBlock(df, IF end > 0 THEN end ELSE 0)
      kc == KeptColumns(block)
      fld(i) == block[i][kc[1]]
      val(i) == block[i][kc[2]]
      kept == IF end > 0 THEN KeptDataRows(df, end) ELSE {}
  IN [sep |-> SeparatorFound(end),
      sig |-> Len(kc) = 2 /\ fld(1) \in VendorNames,
      meta |-> IF Len(kc) = 2
                 THEN {Row(fld(i), val(i) # NaN) :
                         i \in {k \in 1..Len(block) : k > 1 \/ val(k) # NaN}}
                 ELSE {},
      cols |-> HasRow(df, end + 1) /\ ColumnsMatch(RowAt(df, end + 1)),
      units |-> HasRow(df, end + 2) /\ UnitsMatch(RowAt(df, end + 2)),
      n |-> Cardinality(kept),
      dup |-> \E i \in kept, j \in kept : i # j /\ df[i][2] = df[j][2]]

\* os.path.basename (utils.py:129) of a path given by its components.
Basename(path) == path[Len(path)]

None == "None"

\* CPTGeneral.__init__ (models.py:26-56): a keyword that is no parameter is
\* a TypeError; pre_drill_depth defaults to None.
CPTGeneral(kwargs, rev) ==
  IF ~(DOMAIN kwargs \subseteq ConstructorParams(rev)) THEN "TypeError"
  ELSE [k \in DOMAIN kwargs \cup {"pre_drill_depth"} |->
          IF k \in DOMAIN kwargs THEN kwargs[k] ELSE None]

\* The keywords of utils.py:128-141 with the values the code gives those
\* that do not come from the file's metadata values.
GeneralKwargs(path, cpt_name) ==
  [k \in ParseKwargs |->
     CASE k = "source_file" -> Basename(path)
       [] k = "name" -> cpt_name
       [] k = "cone_type" -> "EC"
       [] k = "subcontractor" -> "ConeTec"
       [] k \in {"depth_gwt", "pen_rate", "remarks"} -> None
       [] OTHER -> "from_metadata"]

\* utils.parse_conetec on a grid as pd.read_excel gives it: the exception
\* raised or "ok", the values an IOError message lists, end_of_metadata,
\* df_meta as first cut, and the record returned.
ParseGrid(raw, path, cpt_name, rev) ==
  LET df == DropFirstColumn(raw)
      end == EndOfMetadata(df)
      d == Describe(df)
      block == MetaBlock(df, IF end > 0 THEN end ELSE 0)
      r == parse_conetec(d, rev)
      status ==
        IF ~SeparatorFound(end) THEN "IOError_separator"
        ELSE IF Len(KeptColumns(block)) # 2 THEN "ValueError_two_columns"
        ELSE IF block[1][KeptColumns(block)[1]] = NaN THEN "TypeError_signature"
        ELSE IF r = "IOError_columns" /\ ~HasRow(df, end + 1) THEN "KeyError_row"
        ELSE IF r = "IOError_units" /\ ~HasRow(df, end + 2) THEN "KeyError_row"
        ELSE r
  IN [status |-> status,
      listed |-> CASE status = "IOError_columns" -> RowAt(df, end + 1)
                   [] status = "IOError_units" -> RowAt(df, end + 2)
                   [] OTHER -> <<>>,
      end |-> end,
      df_meta |-> IF SeparatorFound(end) THEN block ELSE <<>>,
      cpt |-> IF status = "ok"
                THEN CPTGeneral(GeneralKwargs(path, cpt_name), rev)
                ELSE None,
      n |-> IF status = "ok" THEN d.n ELSE 0]

\* ------------------------------------------------------------ remote store
\* Answers of a remote call whose status the code checks: 200 or not.
Responses == {"ok", "error"}

\* Answers of the query endpoint, which execute_query reads without looking
\* at the status: 200; a non-200 whose body is an empty JSON value; a
\* non-200 whose body is not JSON or has no DataFields, or a failed token
\* fetch in get_og_headers.
QueryResponses == {"ok", "error_empty_json", "error_other"}

\* Answers of the bulk endpoint: 200 with every record stored; 200 with one
\* record of the call not stored (what insert_cpt_data re-counts for); not 200.
BulkResponses == {"ok", "ok_short", "error"}

\* A query result as the dataframe's row count per LocationID.
EmptyDF == [x \in AllNames |-> 0]

RECURSIVE SumOver(_, _)
SumOver(f, S) ==
  IF S = {} THEN 0
  ELSE LET x == CHOOSE y \in S : TRUE IN f[x] + SumOver(f, S \ {x})

LenDF(df) == SumOver(df, AllNames)

\* openground.execute_query: no status check; .json() of the answer, an empty
\* answer gives the empty dataframe.
execute_query(resp, table) ==
  [raised |-> resp = "error_other",
   df |-> IF resp = "ok" THEN table ELSE EmptyDF]

\* openground.get_project_locations: raises unless 200.
get_project_locations(resp, l) ==
  [raised |-> resp # "ok", out |-> l]

\* openground.get_static_cone_general_records: df["LocationID"] raises
\* KeyError on the empty dataframe, the assert raises on a repeated id.
get_static_cone_general_records(q) ==
  [raised |-> q.raised \/ LenDF(q.df) = 0 \/ (\E x \in AllNames : q.df[x] > 1),
   out |-> {x \in AllNames : q.df[x] >= 1}]

\* get_number_cpt_records without the filter on LocationID (utils.py:360).
get_number_cpt_records_NoFilter(q, name) ==
  [raised |-> q.raised, n |-> LenDF(q.df)]

\* utils.get_number_cpt_records.
get_number_cpt_records(q, name) ==
  [raised |-> q.raised,
   n |-> IF LenDF(q.df) = 0 THEN 0 ELSE q.df[name]]

\* main.py:47, the already-loaded test.
AlreadyLoaded(loaded_records, n) == loaded_records = n

\* insert_cpt_data without its closing assert.
VerifyLoaded_Always(loaded, n) == TRUE

\* utils.py:376, the assert after the bulk insert.
VerifyLoaded(loaded, n) == loaded = n

\* utils.py:366 and 369, the asserts before the bulk insert: one test id in
\* the table (none when it is empty) and no repeated depth.
DataAssertsHold(f) == f.n >= 1 /\ ~f.dup

\* utils.py:209, insert_cpt_test refuses a test without a location.
LocationFound(name, locations) == name \in locations

\* openground.py:97-105 with main.py:75: deleting a location deletes the
\* test-general record and the measurement rows that hang from it.
CascadeGen(g, name) == [g EXCEPT ![name] = 0]
CascadeRows(r, name) == [r EXCEPT ![name] = 0]

\* ------------------------------------------------------------ insert_in_bulk
Min(a, b) == IF a <= b THEN a ELSE b

\* math.ceil(n_records / MAX_ALLOWED_BULK), openground.py:236.
Iterations(n) == (n + MAX_ALLOWED_BULK - 1) \div MAX_ALLOWED_BULK

\* openground.py:232, one call or the packet loop.
SingleCall(n) == n < MAX_ALLOWED_BULK

\* openground.py:239, the end of packet i.
PacketEnd(i, n) == Min(i * MAX_ALLOWED_BULK, n)

\* Number of _load_recs calls insert_in_bulk makes for n records.
Calls(n) == IF SingleCall(n) THEN 1 ELSE Iterations(n)

\* records[start:end] with the record before start taken along.
Slice_FromStart(records, from, to) ==
  SubSeq(records, IF from = 0 THEN 1 ELSE from, to)

\* records[start:end] (openground.py:241); Python counts from 0 and leaves
\* end out.
Slice(records, from, to) == SubSeq(records, from + 1, to)

\* ------------------------------------------------------------------- state
VARIABLES
  manifest,            \* the input manifest, a sequence of files (main.py:29)
  record_rev,          \* revision of the record model in use
  locs,                \* names in LocationDetails
  gen,                 \* test-general records per name
  rows,                \* measurement rows per name
  run,                 \* how many times the driver was started
  idx,                 \* position of the for loop in the manifest
  pc,                  \* position of the driver inside the loop body
  existing_locations,  \* main.py:41
  existing_cpts,       \* main.py:42
  packet,              \* i of insert_in_bulk's loop
  start,               \* start of insert_in_bulk's loop
  att,                 \* what happened so far while processing this entry
  halt,                \* why the driver stopped with an uncaught exception
  last_call,           \* the last remote call and how it ended
  last_batch,          \* number of records of the last bulk call
  loaded_prev,         \* tests whose load ended successfully in the previous run
  loaded_cur,          \* tests whose load ended successfully in this run
  call_in,             \* arguments of a function called on its own
  call_out,            \* what that call has produced so far
  call_pc              \* position of that call

inputs == <<manifest, record_rev, call_in, call_out, call_pc>>
remote == <<locs, gen, rows>>
locals == <<existing_locations, existing_cpts, packet, start>>
hist == <<loaded_prev, loaded_cur>>
vars == <<manifest, record_rev, locs, gen, rows, run, idx, pc,
          existing_locations, existing_cpts, packet, start, att, halt,
          last_call, last_batch, loaded_prev, loaded_cur,
          call_in, call_out, call_pc>>

Name == TestNames[idx]
File == manifest[idx]

NewAttempt(name, l, g, r) ==
  [pre_loc |-> name \in l, pre_gen |-> g[name], pre_rows |-> r[name],
   created_loc |-> FALSE, test_inserted |-> FALSE, wrote |-> FALSE,
   fault |-> FALSE, cause |-> "none", result |-> "none", logged |-> FALSE,
   recount |-> -1]

NoCall == [op |-> "none", status |-> "ok", raised |-> FALSE]
Call(op, resp, raised) ==
  [op |-> op, status |-> IF resp \in {"ok", "ok_short"} THEN "ok" ELSE "error",
   raised |-> raised]

\* States of one name in the remote project: a test-general record needs its
\* location, measurement rows need their test-general record.
RemoteStates ==
  {s \in [loc : BOOLEAN, gen : 0..1, rows : 0..1] :
     (s.gen > 0 => s.loc) /\ (s.rows > 0 => s.gen > 0)}

Manifests ==
  UNION {[1..k -> Files] : k \in 1..Len(TestNames)}

Init ==
  /\ manifest \in Manifests
  /\ record_rev \in RecordRevisions
  /\ \E s \in [AllNames -> RemoteStates] :
       /\ locs = {x \in AllNames : s[x].loc}
       /\ gen = [x \in AllNames |-> s[x].gen]
       /\ rows = [x \in AllNames |-> s[x].rows]
  /\ run = 1
  /\ idx = 1
  /\ pc = "parse"
  /\ existing_locations = {}
  /\ existing_cpts = {}
  /\ packet = 0
  /\ start = 0
  /\ att = NewAttempt(TestNames[1], locs, gen, rows)
  /\ halt = "none"
  /\ last_call = NoCall
  /\ last_batch = 0
  /\ loaded_prev = {}
  /\ loaded_cur = {}
  /\ call_in = "none"
  /\ call_out = "none"
  /\ call_pc = "idle"

\* ------------------------------------------------------------- main.py loop
\* The loop body with insert_cpt_data called before insert_cpt_test.
NextStep_DataBeforeTest(step, loc_exists, cpt_exists) ==
  CASE step = "check" -> IF loc_exists THEN
                           (IF cpt_exists THEN "delete_cpt" ELSE "insert_data")
                         ELSE "create_loc"
    [] step = "create_loc" -> IF cpt_exists THEN "delete_cpt" ELSE "insert_data"
    [] step = "delete_cpt" -> "insert_data"
    [] step = "insert_data" -> "insert_test"
    [] step = "insert_test" -> "next"

\* The order of the statements of the loop body after the already-loaded
\* check (main.py:53-70): the location, then inside the try the delete of an
\* existing test, insert_cpt_test, insert_cpt_data.
NextStep(step, loc_exists, cpt_exists) ==
  CASE step = "check" -> IF loc_exists THEN
                           (IF cpt_exists THEN "delete_cpt" ELSE "insert_test")
                         ELSE "create_loc"
    [] step = "create_loc" -> IF cpt_exists THEN "delete_cpt" ELSE "insert_test"
    [] step = "delete_cpt" -> "insert_test"
    [] step = "insert_test" -> "insert_data"
    [] step = "insert_data" -> "next"

\* An exception that leaves main.py: the driver stops where it is.
Halt(reason) ==
  /\ pc' = "halted"
  /\ halt' = reason

\* The except branch without the rollback: the error is logged and the loop
\* goes on.
Except_NoRollback(cause, a) ==
  /\ pc' = "next"
  /\ att' = [a EXCEPT !.cause = cause, !.logged = TRUE]

\* main.py:72-76, the except branch: the error is logged, rollback starts.
Except(cause, a) ==
  /\ pc' = "rb_list"
  /\ att' = [a EXCEPT !.cause = cause, !.logged = TRUE]

\* main.py:39, utils.parse_conetec outside any try.
Parse ==
  /\ pc = "parse"
  /\ IF parse_conetec(File, record_rev) = "ok"
       THEN pc' = "locs" /\ halt' = halt
       ELSE Halt("parse")
  /\ UNCHANGED <<inputs, remote, run, idx, locals, att, last_call, last_batch,
                 hist>>

\* main.py:41, openground.get_project_locations.
GetLocations ==
  /\ pc = "locs"
  /\ \E resp \in Responses :
       LET r == get_project_locations(resp, locs) IN
       /\ last_call' = Call("list_locations", resp, r.raised)
       /\ att' = [att EXCEPT !.fault = @ \/ resp # "ok"]
       /\ IF r.raised
            THEN Halt("read") /\ UNCHANGED existing_locations
            ELSE pc' = "cpts" /\ halt' = halt /\ existing_locations' = r.out
  /\ UNCHANGED <<inputs, remote, run, idx, existing_cpts, packet, start,
                 last_batch, hist>>

\* main.py:42, openground.get_static_cone_general_records.
GetCpts ==
  /\ pc = "cpts"
  /\ \E resp \in QueryResponses :
       LET q == execute_query(resp, gen)
           r == get_static_cone_general_records(q) IN
       /\ last_call' = Call("list_test_general", resp, r.raised)
       /\ att' = [att EXCEPT !.fault = @ \/ resp # "ok"]
       /\ IF r.raised
            THEN Halt("read") /\ UNCHANGED existing_cpts
            ELSE /\ existing_cpts' = r.out
                 /\ halt' = halt
                 /\ pc' = IF Name \in r.out THEN "check"
                          ELSE NextStep("check", Name \in existing_locations, FALSE)
  /\ UNCHANGED <<inputs, remote, run, idx, existing_locations, packet, start,
                 last_batch, hist>>

\* main.py:45-51, the already-loaded check with utils.get_number_cpt_records.
CheckLoaded ==
  /\ pc = "check"
  /\ \E resp \in QueryResponses :
       LET r == get_number_cpt_records(execute_query(resp, rows), Name) IN
       /\ last_call' = Call("row_count", resp, r.raised)
       /\ IF r.raised
            THEN /\ Halt("read")
                 /\ att' = [att EXCEPT !.fault = TRUE]
                 /\ UNCHANGED loaded_cur
            ELSE IF AlreadyLoaded(r.n, File.n)
            THEN /\ pc' = "next"
                 /\ halt' = halt
                 /\ att' = [att EXCEPT !.fault = @ \/ resp # "ok",
                                       !.result = "skipped"]
                 /\ UNCHANGED loaded_cur
            ELSE /\ pc' = NextStep("check", Name \in existing_locations, TRUE)
                 /\ halt' = halt
                 /\ att' = [att EXCEPT !.fault = @ \/ resp # "ok"]
                 /\ UNCHANGED loaded_cur
  /\ UNCHANGED <<inputs, remote, run, idx, locals, last_batch, loaded_prev>>

\* main.py:54-56, utils.insert_location_from_cpt_test, outside the try.
CreateLocation ==
  /\ pc = "create_loc"
  /\ \E resp \in Responses :
       /\ last_call' = Call("create_location", resp, resp # "ok")
       /\ IF resp = "ok"
            THEN /\ locs' = locs \cup {Name}
                 /\ att' = [att EXCEPT !.wrote = TRUE, !.created_loc = TRUE]
                 /\ pc' = NextStep("create_loc", TRUE, Name \in existing_cpts)
                 /\ halt' = halt
            ELSE /\ Halt("create_location")
                 /\ att' = [att EXCEPT !.fault = TRUE]
                 /\ UNCHANGED locs
  /\ UNCHANGED <<inputs, gen, rows, run, idx, locals, last_batch, hist>>

\* main.py:60-62: openground has no attribute delete_cpt_by_id, the call
\* raises AttributeError inside the try.
DeleteCpt ==
  /\ pc = "delete_cpt"
  /\ Except("AttributeError", att)
  /\ UNCHANGED <<inputs, remote, run, idx, locals, halt, last_call,
                 last_batch, hist>>

\* main.py:66, utils.insert_cpt_test: the locations are listed, the test is
\* refused without its location, then the record is posted.
InsertCptTest ==
  /\ pc = "insert_test"
  /\ \E r1 \in Responses, r2 \in Responses :
       LET l == get_project_locations(r1, locs) IN
       IF l.raised
         THEN /\ r2 = "ok"
              /\ last_call' = Call("list_locations", r1, TRUE)
              /\ Except("insert_test_lookup", [att EXCEPT !.fault = TRUE])
              /\ UNCHANGED gen
       ELSE IF ~LocationFound(Name, l.out)
         THEN /\ r2 = "ok"
              /\ last_call' = Call("list_locations", r1, FALSE)
              /\ Except("insert_test_lookup", att)
              /\ UNCHANGED gen
       ELSE IF r2 # "ok"
         THEN /\ last_call' = Call("create_test_general", r2, TRUE)
              /\ Except("insert_test", [att EXCEPT !.fault = TRUE])
              /\ UNCHANGED gen
       ELSE /\ last_call' = Call("create_test_general", r2, FALSE)
            /\ gen' = [gen EXCEPT ![Name] = @ + 1]
            /\ att' = [att EXCEPT !.wrote = TRUE, !.test_inserted = TRUE]
            /\ pc' = NextStep("insert_test", TRUE, FALSE)
  /\ UNCHANGED <<inputs, locs, rows, run, idx, locals, halt, last_batch, hist>>

\* main.py:70, utils.insert_cpt_data up to the call of insert_in_bulk
\* (utils.py:365-372).
InsertCptData ==
  /\ pc = "insert_data"
  /\ IF DataAssertsHold(File)
       THEN /\ pc' = "bulk"
            /\ packet' = 1
            /\ start' = 0
            /\ att' = att
       ELSE /\ Except("data_assert", att)
            /\ UNCHANGED <<packet, start>>
  /\ UNCHANGED <<inputs, remote, run, idx, existing_locations, existing_cpts,
                 halt, last_call, last_batch, hist>>

\* openground.insert_in_bulk: one _load_recs call, records[start:end].
BulkCall ==
  /\ pc = "bulk"
  /\ LET n == File.n
         end == IF SingleCall(n) THEN n ELSE PacketEnd(packet, n)
         size == end - start
     IN
     \E resp \in BulkResponses :
       /\ resp = "ok_short" => size >= 1
       /\ last_call' = Call("bulk_insert", resp, resp = "error")
       /\ last_batch' = size
       /\ IF resp = "error"
            THEN /\ Except("bulk", [att EXCEPT !.fault = TRUE, !.wrote = TRUE])
                 /\ UNCHANGED <<rows, packet, start>>
            ELSE /\ rows' = [rows EXCEPT
                               ![Name] = @ + (IF resp = "ok" THEN size ELSE size - 1)]
                 /\ att' = [att EXCEPT !.wrote = TRUE,
                                       !.fault = @ \/ resp = "ok_short"]
                 /\ start' = end
                 /\ packet' = packet + 1
                 /\ pc' = IF packet >= Calls(n) THEN "verify" ELSE "bulk"
  /\ UNCHANGED <<inputs, locs, gen, run, idx, existing_locations,
                 existing_cpts, halt, hist>>

\* utils.py:375-376, the re-count and its assert; insert_cpt_data returns.
Verify ==
  /\ pc = "verify"
  /\ \E resp \in QueryResponses :
       LET r == get_number_cpt_records(execute_query(resp, rows), Name) IN
       /\ last_call' = Call("row_count", resp, r.raised)
       /\ IF r.raised
            THEN /\ Except("verify_raise", [att EXCEPT !.fault = TRUE])
                 /\ UNCHANGED loaded_cur
            ELSE IF ~VerifyLoaded(r.n, File.n)
            THEN /\ Except("verify_mismatch",
                           [att EXCEPT !.fault = @ \/ resp # "ok",
                                       !.recount = r.n])
                 /\ UNCHANGED loaded_cur
            ELSE /\ pc' = NextStep("insert_data", TRUE, FALSE)
                 /\ att' = [att EXCEPT !.fault = @ \/ resp # "ok",
                                       !.recount = r.n, !.result = "loaded"]
                 /\ loaded_cur' = loaded_cur \cup {Name}
  /\ UNCHANGED <<inputs, remote, run, idx, locals, halt, last_batch,
                 loaded_prev>>

\* main.py:77, get_project_locations(...)[name] inside the except branch.
RollbackList ==
  /\ pc = "rb_list"
  /\ \E resp \in Responses :
       LET l == get_project_locations(resp, locs) IN
       /\ last_call' = Call("list_locations", resp, l.raised)
       /\ att' = [att EXCEPT !.fault = @ \/ resp # "ok"]
       /\ IF l.raised \/ Name \notin l.out
            THEN Halt("rollback")
            ELSE pc' = "rb_delete" /\ halt' = halt
  /\ UNCHANGED <<inputs, remote, run, idx, locals, last_batch, hist>>

\* main.py:78, openground.delete_location_by_id inside the except branch.
RollbackDelete ==
  /\ pc = "rb_delete"
  /\ \E resp \in Responses :
       /\ last_call' = Call("delete_location", resp, resp # "ok")
       /\ IF resp = "ok"
            THEN /\ locs' = locs \ {Name}
                 /\ gen' = CascadeGen(gen, Name)
                 /\ rows' = CascadeRows(rows, Name)
                 /\ att' = [att EXCEPT !.wrote = TRUE, !.result = "rolledback"]
                 /\ pc' = "next"
                 /\ halt' = halt
            ELSE /\ Halt("rollback")
                 /\ att' = [att EXCEPT !.fault = TRUE, !.wrote = TRUE]
                 /\ UNCHANGED remote
  /\ UNCHANGED <<inputs, run, idx, locals, last_batch, hist>>

\* main.py:33, the for loop takes the next manifest entry or ends.
NextEntry ==
  /\ pc = "next"
  /\ IF idx < Len(manifest)
       THEN /\ idx' = idx + 1
            /\ pc' = "parse"
            /\ att' = NewAttempt(TestNames[idx + 1], locs, gen, rows)
            /\ existing_locations' = {}
            /\ existing_cpts' = {}
            /\ packet' = 0
            /\ start' = 0
            /\ last_call' = NoCall
            /\ last_batch' = 0
       ELSE /\ pc' = "finished"
            /\ UNCHANGED <<idx, att, locals, last_call, last_batch>>
  /\ UNCHANGED <<inputs, remote, run, halt, hist>>

\* The driver is started again on the same manifest and project.
NextRun ==
  /\ pc \in {"finished", "halted"}
  /\ run < MaxRuns
  /\ run' = run + 1
  /\ idx' = 1
  /\ pc' = "parse"
  /\ halt' = "none"
  /\ att' = NewAttempt(TestNames[1], locs, gen, rows)
  /\ existing_locations' = {}
  /\ existing_cpts' = {}
  /\ packet' = 0
  /\ start' = 0
  /\ last_call' = NoCall
  /\ last_batch' = 0
  /\ loaded_prev' = loaded_cur
  /\ loaded_cur' = {}
  /\ UNCHANGED <<inputs, remote>>

Next ==
  \/ Parse
  \/ GetLocations
  \/ GetCpts
  \/ CheckLoaded
  \/ CreateLocation
  \/ DeleteCpt
  \/ InsertCptTest
  \/ InsertCptData
  \/ BulkCall
  \/ Verify
  \/ RollbackList
  \/ RollbackDelete
  \/ NextEntry
  \/ NextRun

Spec == Init /\ [][Next]_vars

\* ------------------------------------------------------------------ typing
TypeOK ==
  /\ locs \subseteq AllNames
  /\ gen \in [AllNames -> Nat]
  /\ rows \in [AllNames -> Nat]
  /\ run \in 1..MaxRuns
  /\ idx \in 1..Len(manifest)
  /\ pc \in {"parse", "locs", "cpts", "check", "create_loc", "delete_cpt",
             "insert_test", "insert_data", "bulk", "verify", "rb_list",
             "rb_delete", "next", "finished", "halted"}

\* ------------------------------------------- functions called on their own
\* The driver's variables while a function is exercised without the driver.
driver == <<manifest, locs, gen, rows, run, idx, pc, locals, att, halt,
            last_call, last_batch, hist>>

DriverIdle ==
  /\ manifest = <<Conforming(1)>>
  /\ locs = {}
  /\ gen = EmptyDF
  /\ rows = EmptyDF
  /\ run = 1
  /\ idx = 1
  /\ pc = "not_started"
  /\ existing_locations = {}
  /\ existing_cpts = {}
  /\ packet = 0
  /\ start = 0
  /\ att = NewAttempt(TestNames[1], locs, gen, rows)
  /\ halt = "none"
  /\ last_call = NoCall
  /\ last_batch = 0
  /\ loaded_prev = {}
  /\ loaded_cur = {}

\* ----------------------------------------------------- parse_conetec alone
\* Widths of the sheet once its first column is dropped.
GridWidths == {Len(ExpectedCols), Len(ExpectedCols) + 1}

\* A row's cells cut or padded with empty cells to the sheet's width.
Fit(cells, w) == [j \in 1..w |-> IF j <= Len(cells) THEN cells[j] ELSE NaN]

\* A row as read from the sheet: the leading cell, then the others.
RawRow(lead, cells, w) == <<lead>> \o Fit(cells, w)

FieldRow(field) == <<field, "v">>

RequiredRows ==
  <<FieldRow("CPT Date:"), FieldRow("CPT Time:"),
    FieldRow("Tip Net Area Ratio:"), FieldRow("Cone ID:"), FieldRow("Run ID:")>>

\* Metadata blocks: the two vendors' and an unknown first cell, a blank row
\* inside the block, a field off the allow-list, no block at all, and a
\* block that is one blank row.
MetaVariants ==
  {<<<<"ConeTec">>>> \o RequiredRows,
   <<<<"CPT Inc.">>>> \o RequiredRows,
   <<<<"Other">>>> \o RequiredRows,
   <<<<"ConeTec">>, <<>>>> \o RequiredRows,
   <<<<"ConeTec">>, FieldRow(UnknownField)>> \o RequiredRows,
   <<>>,
   <<<<>>>>}

\* The separator by the leading cells of its rows: none, one blank row, one
\* row that is blank but for its leading cell.
SepVariants == {<<>>, <<NaN>>, <<"1">>}

ColsVariants ==
  {ExpectedCols,
   <<"Depth", "Depth", "qt", "qc", "fs", "u", "Rf">>,
   <<"Depth", "Depth", "qc", "qt", "fs", "u2", "Rf">>}

UnitsVariants ==
  {ExpectedUnits,
   <<"m", "ft", "psi", "tsf", "tsf", "ft", "%">>,
   <<"ft", "m", "tsf", "tsf", "tsf", "ft", "%">>}

\* The header: no row, the column names only, or both rows.
HeaderVariants ==
  {<<>>} \cup {<<c>> : c \in ColsVariants}
  \cup {<<c, u>> : c \in ColsVariants, u \in UnitsVariants}

\* The data block: empty; a full row; a full row, a row with a masked cone
\* resistance and a row with only qt filled; a full row and a blank row.
DataVariants ==
  {<<>>,
   <<<<"0.3", "1.0", "10", "11", "0.1", "2", "1">>>>,
   <<<<"0.3", "1.0", "10", "11", "0.1", "2", "1">>,
     <<"0.6", "2.0", Sentinel, "12", "0.1", "2", "1">>,
     <<NaN, NaN, NaN, "12", NaN, NaN, NaN>>>>,
   <<<<"0.3", "1.0", "10", "11", "0.1", "2", "1">>, <<>>>>}

Rows(block, w) == [i \in 1..Len(block) |-> RawRow(NaN, block[i], w)]

Grid(w, meta, sep, header, data) ==
  Rows(meta, w) \o [i \in 1..Len(sep) |-> RawRow(sep[i], <<>>, w)]
  \o Rows(header, w) \o Rows(data, w)

Grids ==
  {Grid(w, m, s, h, d) : w \in GridWidths, m \in MetaVariants,
                         s \in SepVariants, h \in HeaderVariants,
                         d \in DataVariants}

\* File paths by their components.
Paths == {<<"cpt_test.XLS">>, <<"tests", "data", "cpt_test.XLS">>}

ParseInit ==
  /\ DriverIdle
  /\ record_rev \in RecordRevisions
  /\ call_in \in [raw : Grids, path : Paths,
                  cpt_name : {TestNames[i] : i \in 1..Len(TestNames)}]
  /\ call_out = "none"
  /\ call_pc = "called"

CallParseConetec ==
  /\ call_pc = "called"
  /\ call_out' = ParseGrid(call_in.raw, call_in.path, call_in.cpt_name,
                           record_rev)
  /\ call_pc' = IF call_out'.status = "ok" THEN "returned" ELSE "raised"
  /\ UNCHANGED <<driver, record_rev, call_in>>

ParseNext == CallParseConetec

ParseSpec == ParseInit /\ [][ParseNext]_vars

\* ---------------------------------------------- _attrs_to_dataframe alone
MaxRows == 2

\* A row of a series by which of its cells hold a value; the cell of a
\* channel the series was not given holds none.
SeriesRows(qc_given, qt_given) ==
  {r \in [depth : BOOLEAN, qc : BOOLEAN, qt : BOOLEAN] :
     (r.qc => qc_given) /\ (r.qt => qt_given)}

Series ==
  UNION {[qc_given : {g}, qt_given : {h},
          rows : UNION {[1..k -> SeriesRows(g, h)] : k \in 0..MaxRows}] :
           g \in BOOLEAN, h \in BOOLEAN}

SeriesInit ==
  /\ DriverIdle
  /\ record_rev = "cpt_id"
  /\ call_in \in Series
  /\ call_out = "none"
  /\ call_pc = "called"

CallAttrsToDataframe ==
  /\ call_pc = "called"
  /\ call_out' = attrs_to_dataframe(call_in)
  /\ call_pc' = IF call_out'.status = "ok" THEN "returned" ELSE "raised"
  /\ UNCHANGED <<driver, record_rev, call_in>>

SeriesNext == CallAttrsToDataframe

SeriesSpec == SeriesInit /\ [][SeriesNext]_vars

\* --------------------------------------------------- insert_in_bulk alone
MaxPackets == 2
Margin == 3

\* Lengths of the record list: within Margin of a multiple of the limit.
BulkLens ==
  {n \in 0..(MaxPackets * MAX_ALLOWED_BULK + Margin) :
     \E p \in 0..MaxPackets :
       /\ n - p * MAX_ALLOWED_BULK <= Margin
       /\ p * MAX_ALLOWED_BULK - n <= Margin}

\* Record lists, a record standing for its content: rising and falling.
RecordLists ==
  {[i \in 1..n |-> i] : n \in BulkLens}
  \cup {[i \in 1..n |-> n + 1 - i] : n \in BulkLens}

\* insert_in_bulk called: i and start of its loop (openground.py:237-238)
\* and the batches _load_recs has posted so far.
BulkInit ==
  /\ DriverIdle
  /\ record_rev = "cpt_id"
  /\ call_in \in RecordLists
  /\ call_out = [i |-> 1, start |-> 0, batches |-> <<>>]
  /\ call_pc = "called"

\* One _load_recs call (openground.py:214-228) from openground.py:233 or 241.
LoadRecs ==
  /\ call_pc = "called"
  /\ LET n == Len(call_in)
         end == IF SingleCall(n) THEN n ELSE PacketEnd(call_out.i, n)
         batch == IF SingleCall(n) THEN call_in
                  ELSE Slice(call_in, call_out.start, end)
     IN \E resp \in Responses :
          IF resp # "ok"
            THEN /\ call_out' = [call_out EXCEPT !.batches = Append(@, batch)]
                 /\ call_pc' = "raised"
            ELSE /\ call_out' = [i |-> call_out.i + 1, start |-> end,
                                 batches |-> Append(call_out.batches, batch)]
                 /\ call_pc' = IF call_out.i >= Calls(n) THEN "returned"
                               ELSE "called"
  /\ UNCHANGED <<driver, record_rev, call_in>>

BulkNext == LoadRecs

BulkSpec == BulkInit /\ [][BulkNext]_vars

\* ------------------------------------------------------------------ claims
\* Processing of the current manifest entry has ended: the loop is about to
\* take the next entry, has run out of entries, or the driver has stopped.
Ended == pc \in {"next", "finished", "halted"}

ParsedOk == parse_conetec(File, record_rev) = "ok"

\* C1: when the previous run ended the load of a test successfully, the next
\* run on the same file and project makes no remote write for that test.
C1_SecondRunWritesNothing ==
  (run > 1 /\ Name \in loaded_prev) => ~att.wrote

\* The second run skips when every remote call it makes is answered 200.
SecondRunSkipsWithoutFaults ==
  (run > 1 /\ Name \in loaded_prev /\ ~att.fault) =>
    /\ ~att.wrote
    /\ pc \in {"parse", "locs", "cpts", "check", "next", "finished"}
    /\ Ended => att.result = "skipped"

C3_LoadedRowCount ==
  att.result = "loaded" => rows[Name] = File.n

\* A series of two batches was loaded.
C3_Witness ==
  /\ att.result = "loaded"
  /\ File.n > MAX_ALLOWED_BULK
  /\ rows[Name] = File.n

\* C4: a run that finds a test-general record whose row count differs from
\* the parsed series (a series insert_cpt_data accepts), with every remote
\* call answered 200, ends with one test-general record and as many rows as
\* the parsed series.
C4_PartialIsReloaded ==
  (Ended /\ ParsedOk /\ DataAssertsHold(File) /\ att.pre_gen >= 1
     /\ att.pre_rows # File.n /\ ~att.fault) =>
    /\ att.result = "loaded"
    /\ gen[Name] = 1
    /\ rows[Name] = File.n

\* C5: a test-general record is only ever inserted for a name that has a
\* location, and a bulk call is only ever made after insert_cpt_test
\* succeeded for the test.
C5_WriteOrder ==
  [][/\ \A t \in AllNames : gen'[t] > gen[t] => t \in locs
     /\ pc = "bulk" => att.test_inserted /\ gen[Name] >= 1 /\ Name \in locs]_vars

\* The location was created, then the test, then all rows were submitted.
C5_Witness ==
  /\ pc = "verify"
  /\ att.created_loc
  /\ att.test_inserted
  /\ rows[Name] = File.n

\* C6: no bulk call carries more than the documented 500 records.
C6_BatchAtMostDocumented ==
  last_batch <= DOC_MAX_ALLOWED_BULK

C8_ParseFailureGoesOn ==
  (pc = "halted" /\ halt = "parse") => idx = Len(manifest)

\* C9: when the re-count after the bulk insert differs from the parsed
\* series length, the attempt is not recorded as loaded and the error is
\* logged.
C9_MismatchIsFatal ==
  (att.recount # -1 /\ att.recount # File.n) =>
    /\ att.result # "loaded"
    /\ Name \notin loaded_cur
    /\ att.logged
    /\ pc \in {"rb_list", "rb_delete", "next", "finished", "halted"}

\* Every batch was answered 200, the re-count differs, the attempt was
\* rolled back.
C9_Witness ==
  /\ att.cause = "verify_mismatch"
  /\ att.recount # File.n
  /\ att.result = "rolledback"

\* C10: a remote call that received a non-success status raised.
C10_NonSuccessRaises ==
  last_call.status = "error" => last_call.raised

\* C11: listing the test-general records does not fail when the query is
\* answered 200, whatever the project holds, a project without any
\* test-general record included.
C11_ListingNeverFails ==
  (last_call.op = "list_test_general" /\ last_call.status = "ok") =>
    ~last_call.raised

\* C16: a location that existed before the attempt started still exists when
\* processing of the test has ended.
C16_ExistingLocationKept ==
  (Ended /\ att.pre_loc) => Name \in locs

\* The grid of the call once its first column is dropped.
CallGrid == DropFirstColumn(call_in.raw)

\* A file that passes every check parse_conetec makes on a file's content.
ConformingGrid ==
  LET d == Describe(CallGrid)
  IN /\ d.sep /\ d.sig /\ d.cols /\ d.units
     /\ MetaIndex(d) \subseteq Expected
     /\ Required \subseteq MetaIndex(d)

\* C12: for a conforming file and a supplied test name, parse_conetec returns
\* a metadata record with that name, the file's base name as source_file,
\* cone_type "EC", subcontractor "ConeTec", and depth_gwt, pen_rate, remarks
\* and pre_drill_depth None.
C12_ConformingFileGivesRecord ==
  (call_pc \in {"returned", "raised"} /\ ConformingGrid) =>
    /\ call_pc = "returned"
    /\ call_out.cpt["name"] = call_in.cpt_name
    /\ call_out.cpt["source_file"] = call_in.path[Len(call_in.path)]
    /\ call_out.cpt["cone_type"] = "EC"
    /\ call_out.cpt["subcontractor"] = "ConeTec"
    /\ \A k \in {"depth_gwt", "pen_rate", "remarks", "pre_drill_depth"} :
         call_out.cpt[k] = None

CallEnded == call_pc \in {"returned", "raised"}

\* Positions (from 1) of the rows of the call's grid that are blank in every
\* column.
BlankPositions ==
  {i \in 1..Len(CallGrid) :
     \A j \in 1..Len(CallGrid[i]) : CallGrid[i][j] = NaN}

LastBlankPosition == CHOOSE i \in BlankPositions : \A k \in BlankPositions : k <= i

\* C13: parse_conetec fails on the separator check, returning no record,
\* exactly when the grid has no entirely blank row or the last such row is the
\* grid's first row; otherwise the metadata block is the rows before the last
\* entirely blank row.
C13_SeparatorCheck ==
  CallEnded =>
    IF BlankPositions = {} \/ LastBlankPosition = 1
      THEN /\ call_pc = "raised"
           /\ call_out.status = "IOError_separator"
           /\ call_out.cpt = None
      ELSE /\ call_out.status # "IOError_separator"
           /\ call_out.df_meta = SubSeq(CallGrid, 1, LastBlankPosition - 1)

\* A grid whose only entirely blank row is its first row has been refused.
C13_Witness ==
  /\ call_pc = "raised"
  /\ call_out.status = "IOError_separator"
  /\ BlankPositions = {1}

\* The two rows below the last entirely blank row; <<>> when the grid ends
\* before them.
ColsRow == RowAt(CallGrid, LastBlankPosition)
UnitsRow == RowAt(CallGrid, LastBlankPosition + 1)

SeparatorOk == BlankPositions # {} /\ LastBlankPosition > 1

\* The checks parse_conetec makes before it looks at the header rows.
PassedEarlierChecks ==
  /\ SeparatorOk
  /\ Describe(CallGrid).sig
  /\ MetaIndex(Describe(CallGrid)) \subseteq Expected

\* C14 as stated, for grids that have both rows below the separator: a record
\* is returned only if both header rows are the expected ones, and whenever
\* one of them differs parsing fails with the error that lists that row's
\* values.
C14_HeaderGateAlways ==
  (CallEnded /\ SeparatorOk /\ ColsRow # <<>> /\ UnitsRow # <<>>) =>
    /\ call_pc = "returned" =>
         (ColsRow = ExpectedCols /\ UnitsRow = ExpectedUnits)
    /\ ColsRow # ExpectedCols =>
         (call_out.status = "IOError_columns" /\ call_out.listed = ColsRow)
    /\ (ColsRow = ExpectedCols /\ UnitsRow # ExpectedUnits) =>
         (call_out.status = "IOError_units" /\ call_out.listed = UnitsRow)

\* C14: a record is returned only if both header rows are the expected ones;
\* for a file that passed the earlier checks, a column row that is there and
\* differs fails with the error listing it, a units row that is there and
\* differs below a right column row fails with the error listing it, and a
\* header row that is not there fails with a lookup error.
C14_HeaderGate ==
  (CallEnded /\ SeparatorOk) =>
    /\ call_pc = "returned" =>
         (ColsRow = ExpectedCols /\ UnitsRow = ExpectedUnits)
    /\ PassedEarlierChecks =>
         /\ (ColsRow # <<>> /\ ColsRow # ExpectedCols) =>
              (call_out.status = "IOError_columns" /\ call_out.listed = ColsRow)
         /\ (ColsRow = ExpectedCols /\ UnitsRow # <<>>
             /\ UnitsRow # ExpectedUnits) =>
              (call_out.status = "IOError_units" /\ call_out.listed = UnitsRow)
         /\ (ColsRow = <<>> \/ (ColsRow = ExpectedCols /\ UnitsRow = <<>>)) =>
              call_out.status = "KeyError_row"

\* A file with psi as third unit has been refused with its units listed.
C14_Witness ==
  /\ call_pc = "raised"
  /\ call_out.status = "IOError_units"
  /\ call_out.listed = UnitsRow
  /\ UnitsRow[3] = "psi"

\* A row that has a value in its depth or in one of the resistance channels
\* the series was given.
HasDepthOrAnyResistance(r) ==
  r.depth \/ (call_in.qc_given /\ r.qc) \/ (call_in.qt_given /\ r.qt)

\* A row that has a value in its depth or in the cone resistance, or in the
\* corrected cone resistance when the series has no cone resistance.
HasDepthOrFirstResistance(r) ==
  r.depth \/ (IF call_in.qc_given THEN r.qc ELSE r.qt)

\* C15 as stated: the finalized table is the series without the rows in which
\* depth and every resistance channel the series has are missing.
C15_DropsOnlyAllMissing ==
  (CallEnded /\ call_out.status = "ok") =>
    call_out.data = SelectSeq(call_in.rows, HasDepthOrAnyResistance)

\* C15: a series without cone resistance and without corrected cone
\* resistance is refused; for any other the finalized table is the series, in
\* order, without the rows in which depth and the cone resistance are
\* missing, the corrected cone resistance standing in only when the series
\* has no cone resistance.
C15_MissingRowRule ==
  CallEnded =>
    IF ~call_in.qc_given /\ ~call_in.qt_given
      THEN call_out.status = "ValueError"
      ELSE /\ call_out.status = "ok"
           /\ call_out.data = SelectSeq(call_in.rows, HasDepthOrFirstResistance)

\* A series with both channels has lost a row that had only a corrected cone
\* resistance.
C15_Witness ==
  /\ call_pc = "returned"
  /\ call_in.qc_given /\ call_in.qt_given
  /\ \E i \in 1..Len(call_in.rows) :
       ~call_in.rows[i].depth /\ ~call_in.rows[i].qc /\ call_in.rows[i].qt
  /\ Len(call_out.data) < Len(call_in.rows)

\* The batches posted, one after the other.
Concat(bs) ==
  LET F[k \in 0..Len(bs)] == IF k = 0 THEN <<>> ELSE F[k - 1] \o bs[k]
  IN F[Len(bs)]

\* C17: when every bulk call has succeeded the batches posted, in order, make
\* up the input list; when a call fails, the batches posted are the failing
\* one and those before it, a part of the list from its start, and none
\* follows.
C17_ChunkingComplete ==
  /\ call_pc = "returned" => Concat(call_out.batches) = call_in
  /\ call_pc = "raised" =>
       /\ Len(call_out.batches) = call_out.i
       /\ Concat(call_out.batches) =
            SubSeq(call_in, 1, Len(Concat(call_out.batches)))
       /\ ~ENABLED LoadRecs

\* A list of twice the limit has gone out in two batches.
C17_Witness ==
  /\ call_pc = "returned"
  /\ Len(call_in) = 2 * MAX_ALLOWED_BULK
  /\ Len(call_out.batches) = 2

====
